---- MODULE Spec2Model ----
(***************************************************************************)
(* Model of the smartspend data-integrity core: the list operations, the   *)
(* merge and the daily statistics of src/services/logic.ts and the CSV     *)
(* codec of src/services/csv.ts.                                           *)
(*                                                                         *)
(* A JavaScript string is a sequence of one-character strings, so that     *)
(* trimming, splitting, quoting and parsing are computed character by      *)
(* character.  A JavaScript number is a record: NaN, an infinity, or a     *)
(* finite decimal  (-1)^neg * m * 10^(-d)  with m not divisible by 10      *)
(* unless d = 0.                                                           *)
(***************************************************************************)
EXTENDS Integers, Sequences, FiniteSets, TLC

(* ---------------------------------------------------------------- bounds *)
MaxCur == 2
MaxInc == 3
MaxDescLen == 2
MaxRecs == 2
MaxRows == 2
MaxStat == 3
MaxSteps == 4
MaxAdds == 2
MaxReads == 2

(* ------------------------------------------------------- generic helpers *)
SeqsUpTo(S, n) == UNION {[1..k -> S] : k \in 0..n}

Range(s) == {s[i] : i \in 1..Len(s)}

(* --------------------------------------------------------------- numbers *)
NaN == [k |-> "nan", neg |-> FALSE, m |-> 0, d |-> 0]
Infinity(n) == [k |-> "inf", neg |-> n, m |-> 0, d |-> 0]
Fin(n) == [k |-> "fin", neg |-> n < 0, m |-> IF n < 0 THEN 0 - n ELSE n, d |-> 0]

RECURSIVE Normalise(_)
\* canonical form of a finite decimal: no trailing zero in the fraction
Normalise(x) ==
  IF x.d > 0 /\ x.m % 10 = 0
    THEN Normalise([x EXCEPT !.m = x.m \div 10, !.d = x.d - 1])
    ELSE x

Dec(neg, m, d) == Normalise([k |-> "fin", neg |-> neg, m |-> m, d |-> d])

(* ------------------------------------------------- src/types.ts: Expense *)
Str(c) == <<c>>

D1 == <<"2","0","2","3","-","1","0","-","2","5">>
Food == <<"F","o","o","d">>
Changed == <<"C","h","a","n","g","e","d">>
Groceries == <<"G","r","o","c","e","r","i","e","s">>
Modified == <<"M","o","d","i","f","i","e","d">>

Expense(id, date, amount, category, description, tags) ==
  [id |-> id, date |-> date, amount |-> amount, category |-> category,
   description |-> description, tags |-> tags]

Ids == {Str("1"), Str("2"), Str("3")}

\* two records per id that differ in three fields
LogicPool ==
  {Expense(i, D1, Fin(50), Food, Groceries, <<Str("h")>>) : i \in Ids}
  \cup {Expense(i, D1, Fin(500), Changed, Modified, <<>>) : i \in Ids}

(* ------------------------------------------ JavaScript Map (keys ordered) *)
\* a Map is the sequence of its [key, value] entries in insertion order
MapHas(map, key) == \E i \in 1..Len(map) : map[i].key = key

MapSet_moveToEnd(map, key, value) ==
  SelectSeq(map, LAMBDA en : en.key # key) \o <<[key |-> key, value |-> value]>>

MapSet(map, key, value) ==
  IF MapHas(map, key)
    THEN [i \in 1..Len(map) |->
            IF map[i].key = key THEN [key |-> key, value |-> value] ELSE map[i]]
    ELSE Append(map, [key |-> key, value |-> value])

MapValues(map) == [i \in 1..Len(map) |-> map[i].value]

(* -------------------------------------------------- src/services/logic.ts *)
\* Each list operation yields its return value together with the contents
\* of its array arguments after the call and whether the returned array is
\* a newly allocated one.

addExpenseToList_unshift(currentExpenses, newExpense) ==
  [ret |-> <<newExpense>> \o currentExpenses,
   currentExpenses |-> <<newExpense>> \o currentExpenses,
   isNew |-> FALSE]

addExpenseToList_append(currentExpenses, newExpense) ==
  [ret |-> Append(currentExpenses, newExpense),
   currentExpenses |-> currentExpenses,
   isNew |-> TRUE]

addExpenseToList(currentExpenses, newExpense) ==
  [ret |-> <<newExpense>> \o currentExpenses,
   currentExpenses |-> currentExpenses,
   isNew |-> TRUE]

FirstWithId(currentExpenses, id) ==
  CHOOSE p \in 1..Len(currentExpenses) :
    currentExpenses[p].id = id /\ \A q \in 1..(p - 1) : currentExpenses[q].id # id

deleteExpenseFromList_firstOnly(currentExpenses, id) ==
  [ret |-> IF \A i \in 1..Len(currentExpenses) : currentExpenses[i].id # id
             THEN currentExpenses
             ELSE SubSeq(currentExpenses, 1, FirstWithId(currentExpenses, id) - 1)
                  \o SubSeq(currentExpenses, FirstWithId(currentExpenses, id) + 1,
                            Len(currentExpenses)),
   currentExpenses |-> currentExpenses,
   isNew |-> TRUE]

deleteExpenseFromList(currentExpenses, id) ==
  [ret |-> SelectSeq(currentExpenses, LAMBDA e : e.id # id),
   currentExpenses |-> currentExpenses,
   isNew |-> TRUE]

editExpenseInList_upsert(currentExpenses, updatedExpense) ==
  [ret |-> IF \E i \in 1..Len(currentExpenses) : currentExpenses[i].id = updatedExpense.id
             THEN [i \in 1..Len(currentExpenses) |->
                     IF currentExpenses[i].id = updatedExpense.id
                       THEN updatedExpense ELSE currentExpenses[i]]
             ELSE Append(currentExpenses, updatedExpense),
   currentExpenses |-> currentExpenses,
   isNew |-> TRUE]

editExpenseInList(currentExpenses, updatedExpense) ==
  [ret |-> [i \in 1..Len(currentExpenses) |->
              IF currentExpenses[i].id = updatedExpense.id
                THEN updatedExpense ELSE currentExpenses[i]],
   currentExpenses |-> currentExpenses,
   isNew |-> TRUE]

RECURSIVE LoadCurrent_skipped(_, _)
LoadCurrent_skipped(map, cur) == map

RECURSIVE LoadCurrent(_, _)
\* current.forEach(e => map.set(e.id, e))
LoadCurrent(map, cur) ==
  IF cur = <<>> THEN map
  ELSE LoadCurrent(MapSet(map, Head(cur).id, Head(cur)), Tail(cur))

RECURSIVE ApplyIncoming_keepExisting(_, _)
ApplyIncoming_keepExisting(acc, inc) ==
  IF inc = <<>> THEN acc
  ELSE ApplyIncoming_keepExisting(
         [map |-> IF MapHas(acc.map, Head(inc).id) THEN acc.map
                  ELSE MapSet(acc.map, Head(inc).id, Head(inc)),
          added |-> IF MapHas(acc.map, Head(inc).id) THEN acc.added ELSE acc.added + 1,
          updated |-> IF MapHas(acc.map, Head(inc).id) THEN acc.updated + 1 ELSE acc.updated],
         Tail(inc))

RECURSIVE ApplyIncoming_countAfterSet(_, _)
ApplyIncoming_countAfterSet(acc, inc) ==
  IF inc = <<>> THEN acc
  ELSE ApplyIncoming_countAfterSet(
         [map |-> MapSet(acc.map, Head(inc).id, Head(inc)),
          added |-> acc.added,
          updated |-> acc.updated + 1],
         Tail(inc))

RECURSIVE ApplyIncoming(_, _)
\* incoming.forEach(inc => { has ? updated++ : added++; map.set(inc.id, inc) })
ApplyIncoming(acc, inc) ==
  IF inc = <<>> THEN acc
  ELSE ApplyIncoming(
         [map |-> MapSet(acc.map, Head(inc).id, Head(inc)),
          added |-> IF MapHas(acc.map, Head(inc).id) THEN acc.added ELSE acc.added + 1,
          updated |-> IF MapHas(acc.map, Head(inc).id) THEN acc.updated + 1 ELSE acc.updated],
         Tail(inc))

mergeExpenses(cur, inc) ==
  LET acc == ApplyIncoming([map |-> LoadCurrent(<<>>, cur), added |-> 0, updated |-> 0], inc)
  IN  [merged |-> MapValues(acc.map),
       stats |-> [added |-> acc.added, updated |-> acc.updated, skipped |-> 0],
       current |-> cur,
       incoming |-> inc,
       isNew |-> TRUE]

(* ---------------------------------------------------- JavaScript strings *)
\* String.prototype.trim removes white space and line terminators
IsSpace(c) == c \in {" ", "\t", "\r", "\n"}

TrimStart(s) ==
  LET kept == {i \in 1..Len(s) : ~IsSpace(s[i])}
  IN  IF kept = {} THEN <<>>
      ELSE SubSeq(s, CHOOSE i \in kept : \A j \in kept : i <= j, Len(s))

TrimEnd(s) ==
  LET kept == {i \in 1..Len(s) : ~IsSpace(s[i])}
  IN  IF kept = {} THEN <<>>
      ELSE SubSeq(s, 1, CHOOSE i \in kept : \A j \in kept : j <= i)

Trim(s) == TrimEnd(TrimStart(s))

RECURSIVE Join(_, _)
\* Array.prototype.join
Join(strs, sep) ==
  IF strs = <<>> THEN <<>>
  ELSE IF Len(strs) = 1 THEN strs[1]
  ELSE strs[1] \o sep \o Join(Tail(strs), sep)

\* the pieces of s between the positions of the set at, in order
CutAt(s, at) ==
  LET n == Cardinality(at)
      pos(k) == IF k = 0 THEN 0
                ELSE IF k = n + 1 THEN Len(s) + 1
                ELSE CHOOSE i \in at : Cardinality({j \in at : j < i}) = k - 1
  IN  [k \in 1..(n + 1) |-> SubSeq(s, pos(k - 1) + 1, pos(k) - 1)]

\* String.prototype.split on a one-character separator
Split(s, sep) == CutAt(s, {i \in 1..Len(s) : s[i] = sep})

\* a "\r" right before the "\n" that ends a line belongs to the terminator
StripCR(pieces) ==
  [k \in 1..Len(pieces) |->
     IF k < Len(pieces) /\ pieces[k] # <<>> /\ pieces[k][Len(pieces[k])] = "\r"
       THEN SubSeq(pieces[k], 1, Len(pieces[k]) - 1)
       ELSE pieces[k]]

\* csvText.split(/\r?\n/)
SplitLines(s) == StripCR(CutAt(s, {i \in 1..Len(s) : s[i] = "\n"}))

\* Array.prototype.indexOf, 0-based, -1 when absent
IndexOf(arr, x) ==
  IF \E i \in 1..Len(arr) : arr[i] = x
    THEN (CHOOSE i \in 1..Len(arr) : arr[i] = x /\ \A j \in 1..(i - 1) : arr[j] # x) - 1
    ELSE -1

Includes(s, c) == \E i \in 1..Len(s) : s[i] = c

RECURSIVE DoubleQuotes(_)
\* s.replace(/"/g, '""')
DoubleQuotes(s) ==
  IF s = <<>> THEN <<>>
  ELSE (IF Head(s) = "\"" THEN <<"\"", "\"">> ELSE <<Head(s)>>) \o DoubleQuotes(Tail(s))

RECURSIVE UndoubleQuotes(_)
\* s.replace(/""/g, '"'): leftmost non-overlapping pairs
UndoubleQuotes(s) ==
  IF s = <<>> THEN <<>>
  ELSE IF Len(s) >= 2 /\ s[1] = "\"" /\ s[2] = "\""
    THEN <<"\"">> \o UndoubleQuotes(SubSeq(s, 3, Len(s)))
  ELSE <<Head(s)>> \o UndoubleQuotes(Tail(s))

(* ------------------------------------------- numbers to and from strings *)
Digits == <<"0", "1", "2", "3", "4", "5", "6", "7", "8", "9">>
IsDigit(c) == \E i \in 1..10 : Digits[i] = c
DigitVal(c) == (CHOOSE i \in 1..10 : Digits[i] = c) - 1

RECURSIVE NatToStr(_)
NatToStr(n) == IF n < 10 THEN <<Digits[n + 1]>> ELSE NatToStr(n \div 10) \o <<Digits[(n % 10) + 1]>>

RECURSIVE StrToNat(_, _)
StrToNat(s, acc) == IF s = <<>> THEN acc ELSE StrToNat(Tail(s), acc * 10 + DigitVal(Head(s)))

RECURSIVE Pow10(_)
Pow10(n) == IF n = 0 THEN 1 ELSE 10 * Pow10(n - 1)

RECURSIVE Zeros(_)
Zeros(n) == IF n <= 0 THEN <<>> ELSE <<"0">> \o Zeros(n - 1)

InfinityStr == <<"I", "n", "f", "i", "n", "i", "t", "y">>

\* the digits ds of the mantissa with the decimal point d places from the end
PlaceDot(ds, d) ==
  SubSeq(ds, 1, Len(ds) - d)
  \o (IF d > 0 THEN <<".">> \o SubSeq(ds, Len(ds) - d + 1, Len(ds)) ELSE <<>>)

\* Number::toString in the range where no exponent is printed
\* (1e-6 <= |x| < 1e21); -0 prints as 0
NumberToString(x) ==
  IF x.k = "nan" THEN <<"N", "a", "N">>
  ELSE IF x.k = "inf" THEN (IF x.neg THEN <<"-">> ELSE <<>>) \o InfinityStr
  ELSE IF x.m = 0 THEN <<"0">>
  ELSE (IF x.neg THEN <<"-">> ELSE <<>>)
       \o PlaceDot(Zeros(x.d + 1 - Len(NatToStr(x.m))) \o NatToStr(x.m), x.d)

RECURSIVE DigitPrefix(_)
DigitPrefix(s) ==
  IF s # <<>> /\ IsDigit(Head(s)) THEN <<Head(s)>> \o DigitPrefix(Tail(s)) ELSE <<>>

StartsWith(s, pre) == Len(s) >= Len(pre) /\ SubSeq(s, 1, Len(pre)) = pre
Drop(s, n) == SubSeq(s, n + 1, Len(s))

\* value of the digits int . frac times 10^exp
DecimalValue(neg, int, frac, exp) ==
  IF Len(frac) - exp >= 0
    THEN Dec(neg, StrToNat(int \o frac, 0), Len(frac) - exp)
    ELSE Dec(neg, StrToNat(int \o frac, 0) * Pow10(exp - Len(frac)), 0)

\* the exponent part: e or E, an optional sign and at least one digit;
\* anything else is not part of the literal
ExponentOf(u) ==
  IF u = <<>> \/ Head(u) \notin {"e", "E"} THEN 0
  ELSE IF Len(u) >= 2 /\ u[2] = "-" THEN 0 - StrToNat(DigitPrefix(Drop(u, 2)), 0)
  ELSE IF Len(u) >= 2 /\ u[2] = "+" THEN StrToNat(DigitPrefix(Drop(u, 2)), 0)
  ELSE StrToNat(DigitPrefix(Tail(u)), 0)

ParseFraction(neg, int, u) ==
  IF u # <<>> /\ Head(u) = "."
    THEN IF int = <<>> /\ DigitPrefix(Tail(u)) = <<>> THEN NaN
         ELSE DecimalValue(neg, int, DigitPrefix(Tail(u)),
                           ExponentOf(Drop(u, 1 + Len(DigitPrefix(Tail(u))))))
    ELSE IF int = <<>> THEN NaN
         ELSE DecimalValue(neg, int, <<>>, ExponentOf(u))

ParseUnsigned(neg, u) ==
  IF StartsWith(u, InfinityStr) THEN Infinity(neg)
  ELSE ParseFraction(neg, DigitPrefix(u), Drop(u, Len(DigitPrefix(u))))

ParseSigned(t) ==
  IF t # <<>> /\ Head(t) \in {"+", "-"}
    THEN ParseUnsigned(Head(t) = "-", Tail(t))
    ELSE ParseUnsigned(FALSE, t)

\* parseFloat: the value of the longest prefix of the text, leading white
\* space skipped, that is a decimal literal; NaN when there is none
parseFloat(str) == ParseSigned(TrimStart(str))

isNaN(x) == x.k = "nan"

(* ---------------------------------------------------- src/services/csv.ts *)
ColId == <<"i", "d">>
ColDate == <<"d", "a", "t", "e">>
ColAmount == <<"a", "m", "o", "u", "n", "t">>
ColCategory == <<"c", "a", "t", "e", "g", "o", "r", "y">>
ColDescription == <<"d", "e", "s", "c", "r", "i", "p", "t", "i", "o", "n">>
ColTags == <<"t", "a", "g", "s">>
Uncategorized == <<"U", "n", "c", "a", "t", "e", "g", "o", "r", "i", "z", "e", "d">>

headers == <<ColId, ColDate, ColAmount, ColCategory, ColDescription, ColTags>>
requiredCols == <<ColId, ColDate, ColAmount, ColCategory, ColDescription, ColTags>>

EscapeDescription_noDoubling(description) ==
  IF Includes(description, ",") \/ Includes(description, "\"")
    THEN <<"\"">> \o description \o <<"\"">>
    ELSE description

\* description quoted and its quotes doubled when it has a comma or a quote
EscapeDescription(description) ==
  IF Includes(description, ",") \/ Includes(description, "\"")
    THEN <<"\"">> \o DoubleQuotes(description) \o <<"\"">>
    ELSE description

ExpenseRow_quotesCategory(e) ==
  Join(<<e.id, e.date, NumberToString(e.amount), EscapeDescription(e.category),
         EscapeDescription(e.description), Join(e.tags, <<";">>)>>, <<",">>)

ExpenseRow(e) ==
  Join(<<e.id, e.date, NumberToString(e.amount), e.category,
         EscapeDescription(e.description), Join(e.tags, <<";">>)>>, <<",">>)

generateCSVString(expenses) ==
  Join(<<Join(headers, <<",">>)>> \o [i \in 1..Len(expenses) |-> ExpenseRow(expenses[i])],
       <<"\n">>)

\* the value of inQuotes when the scanner of importExpenses reaches the
\* i-th character: every quote before it has toggled the flag
InQuotesAt(line, i) == Cardinality({j \in 1..(i - 1) : line[j] = "\""}) % 2 = 1

ScanRow_keepQuotes(line) ==
  CutAt(line, {i \in 1..Len(line) : line[i] = "," /\ ~InQuotesAt(line, i)})

DropQuotes(raw) == [k \in 1..Len(raw) |-> SelectSeq(raw[k], LAMBDA c : c # "\"")]

\* the character scanner of importExpenses: a quote toggles inQuotes and is
\* not copied, a comma outside quotes ends the part, any other character is
\* appended to the part
ScanRow(line) ==
  DropQuotes(CutAt(line, {i \in 1..Len(line) : line[i] = "," /\ ~InQuotesAt(line, i)}))

\* date.match(/^\d{4}-\d{2}-\d{2}$/)
MatchesDate(date) ==
  /\ Len(date) = 10
  /\ \A i \in {1, 2, 3, 4, 6, 7, 9, 10} : IsDigit(date[i])
  /\ date[5] = "-" /\ date[8] = "-"

TrimAll(pieces) == [i \in 1..Len(pieces) |-> Trim(pieces[i])]

ParseTags_noTrim(tagsStr) ==
  IF tagsStr = <<>> THEN <<>>
  ELSE SelectSeq(Split(tagsStr, ";"), LAMBDA t : t # <<>>)

\* tagsStr ? tagsStr.split(';').map(t => t.trim()).filter(Boolean) : []
ParseTags(tagsStr) ==
  IF tagsStr = <<>> THEN <<>>
  ELSE SelectSeq(TrimAll(Split(tagsStr, ";")), LAMBDA t : t # <<>>)

Unescape(description) ==
  IF StartsWith(description, <<"\"">>) /\ description[Len(description)] = "\""
    THEN UndoubleQuotes(SubSeq(description, 2, Len(description) - 1))
    ELSE description

RowError(i, message) == [line |-> i + 1, message |-> message]
FileError(message) == [line |-> 0, message |-> message]

Fail(acc, i, message) == [acc EXCEPT !.errors = Append(@, RowError(i, message))]

ImportFields_dateFirst(acc, i, id, date, amount, category, description, tagsStr) ==
  IF ~MatchesDate(date) THEN Fail(acc, i, "Invalid Date format (YYYY-MM-DD required)")
  ELSE IF id = <<>> THEN Fail(acc, i, "Missing ID")
  ELSE IF isNaN(amount) THEN Fail(acc, i, "Invalid Amount")
  ELSE [acc EXCEPT !.expenses = Append(@,
          Expense(id, date, amount,
                  IF category = <<>> THEN Uncategorized ELSE category,
                  Unescape(description),
                  ParseTags(tagsStr)))]

\* the validation of the trimmed fields and the record that is pushed
ImportFields(acc, i, id, date, amount, category, description, tagsStr) ==
  IF id = <<>> THEN Fail(acc, i, "Missing ID")
  ELSE IF ~MatchesDate(date) THEN Fail(acc, i, "Invalid Date format (YYYY-MM-DD required)")
  ELSE IF isNaN(amount) THEN Fail(acc, i, "Invalid Amount")
  ELSE [acc EXCEPT !.expenses = Append(@,
          Expense(id, date, amount,
                  IF category = <<>> THEN Uncategorized ELSE category,
                  Unescape(description),
                  ParseTags(tagsStr)))]

\* the column count check and the fields taken at the positions of idx
ImportParts(acc, parts, i, hdr, idx) ==
  IF Len(parts) < Len(hdr) THEN Fail(acc, i, "Insufficient columns")
  ELSE ImportFields(acc, i,
         Trim(parts[idx.id + 1]),
         Trim(parts[idx.date + 1]),
         parseFloat(Trim(parts[idx.amount + 1])),
         Trim(parts[idx.category + 1]),
         Trim(parts[idx.description + 1]),
         Trim(parts[idx.tags + 1]))

ImportTrimmed(acc, line, i, hdr, idx) ==
  IF line = <<>> THEN acc ELSE ImportParts(acc, ScanRow(line), i, hdr, idx)

ImportLine_afterError(acc, rawLine, i, hdr, idx) ==
  IF acc.errors # <<>> THEN acc ELSE ImportTrimmed(acc, Trim(rawLine), i, hdr, idx)

\* one iteration of the loop over the lines; i is the 0-based line index,
\* hdr the header names, idx the column positions
ImportLine(acc, rawLine, i, hdr, idx) == ImportTrimmed(acc, Trim(rawLine), i, hdr, idx)

RECURSIVE ImportLines(_, _, _, _, _)
ImportLines(acc, lines, i, hdr, idx) ==
  IF i >= Len(lines) THEN acc
  ELSE ImportLines(ImportLine(acc, lines[i + 1], i, hdr, idx), lines, i + 1, hdr, idx)

\* requiredCols.forEach(col => { idx[col] = headers.indexOf(col) })
HeaderIndex(hdr) ==
  [id |-> IndexOf(hdr, ColId), date |-> IndexOf(hdr, ColDate),
   amount |-> IndexOf(hdr, ColAmount), category |-> IndexOf(hdr, ColCategory),
   description |-> IndexOf(hdr, ColDescription), tags |-> IndexOf(hdr, ColTags)]

FixedIndex(hdr) ==
  [id |-> 0, date |-> 1, amount |-> 2, category |-> 3, description |-> 4, tags |-> 5]

ImportWithHeader_fixedIndex(lines, hdr) ==
  IF \E i \in 1..Len(requiredCols) : IndexOf(hdr, requiredCols[i]) = -1
    THEN [expenses |-> <<>>, errors |-> <<FileError("Missing required columns")>>]
    ELSE ImportLines([expenses |-> <<>>, errors |-> <<>>], lines, 1, hdr, FixedIndex(hdr))

ImportWithHeader(lines, hdr) ==
  IF \E i \in 1..Len(requiredCols) : IndexOf(hdr, requiredCols[i]) = -1
    THEN [expenses |-> <<>>, errors |-> <<FileError("Missing required columns")>>]
    ELSE ImportLines([expenses |-> <<>>, errors |-> <<>>], lines, 1, hdr, HeaderIndex(hdr))

ImportFromLines_headerOnlyAccepted(lines) ==
  IF Len(lines) < 1
    THEN [expenses |-> <<>>, errors |-> <<FileError("File is empty or missing headers")>>]
    ELSE ImportWithHeader(lines, Split(Trim(lines[1]), ","))

ImportFromLines(lines) ==
  IF Len(lines) < 2
    THEN [expenses |-> <<>>, errors |-> <<FileError("File is empty or missing headers")>>]
    ELSE ImportWithHeader(lines, Split(Trim(lines[1]), ","))

importExpenses(csvText) == ImportFromLines(SplitLines(csvText))

NewOnly_all(imported, existingIds) == imported.expenses

NewOnly(imported, existingIds) ==
  SelectSeq(imported.expenses, LAMBDA e : e.id \notin existingIds)

ParseResult(newExpenses, errors) ==
  [newExpenses |-> newExpenses, count |-> Len(newExpenses), errors |-> Len(errors)]

FilterImported(imported, existingExpenses) ==
  ParseResult(NewOnly(imported, {existingExpenses[i].id : i \in 1..Len(existingExpenses)}),
              imported.errors)

parseCSV(csvText, existingExpenses) ==
  FilterImported(importExpenses(csvText), existingExpenses)

\* the contents of the array handed to parseCSV once the call has returned:
\* the array is only read, by map
ExistingAfterParseCSV(csvText, existingExpenses) == existingExpenses

(* ----------------------------------- logic.ts: calculateDailyStats *)
\* a finite number as an integer count of units of 10^(-scale)
Scaled(x, scale) == (IF x.neg THEN 0 - 1 ELSE 1) * x.m * Pow10(scale - x.d)

FromScaled(n, scale) == Dec(n < 0, IF n < 0 THEN 0 - n ELSE n, scale)

ScaleOf(x, y) == IF x.d > y.d THEN x.d ELSE y.d

\* x + y, NaN when an operand is NaN
NumAdd(x, y) ==
  IF x.k # "fin" \/ y.k # "fin" THEN NaN
  ELSE FromScaled(Scaled(x, ScaleOf(x, y)) + Scaled(y, ScaleOf(x, y)), ScaleOf(x, y))

\* x > y and x <= y, both false when an operand is NaN
NumGt(x, y) ==
  x.k = "fin" /\ y.k = "fin" /\ Scaled(x, ScaleOf(x, y)) > Scaled(y, ScaleOf(x, y))

NumLe(x, y) ==
  x.k = "fin" /\ y.k = "fin" /\ Scaled(x, ScaleOf(x, y)) <= Scaled(y, ScaleOf(x, y))

\* a quotient is kept exact, as a fraction with a positive denominator
Frac(num, den) == [num |-> num, den |-> den]

\* (x / y) * 100 for finite x and finite y > 0
PercentOf(x, y) == Frac(100 * Scaled(x, ScaleOf(x, y)), Scaled(y, ScaleOf(x, y)))

FracGe(r, n) == r.num >= n * r.den
FracEq(r, n) == r.num = n * r.den

\* Math.min(r, n)
MathMin(r, n) == IF r.num > n * r.den THEN Frac(n, 1) ELSE r

TodaySpend_allDates(expenses, dateStr) == expenses

\* expenses.filter(e => e.date === dateStr)
TodaySpend(expenses, dateStr) == SelectSeq(expenses, LAMBDA e : e.date = dateStr)

\* .reduce((sum, e) => sum + e.amount, 0)
RECURSIVE SumAmounts(_, _)
SumAmounts(sum, list) ==
  IF list = <<>> THEN sum ELSE SumAmounts(NumAdd(sum, list[1].amount), Tail(list))

\* dailyLimit > 0 ? (todaySpend / dailyLimit) * 100 : 0
LimitPercentage(todaySpend, dailyLimit) ==
  IF NumGt(dailyLimit, Fin(0)) /\ todaySpend.k = "fin"
    THEN PercentOf(todaySpend, dailyLimit)
    ELSE Frac(0, 1)

DailyStats_nearWhenOver(todaySpend, dailyLimit, limitPercentage) ==
  [todaySpend |-> todaySpend,
   isOverLimit |-> NumGt(todaySpend, dailyLimit),
   isNearLimit |-> FracGe(limitPercentage, 80),
   limitPercentage |-> MathMin(limitPercentage, 100)]

\* the object that calculateDailyStats returns
DailyStats(todaySpend, dailyLimit, limitPercentage) ==
  [todaySpend |-> todaySpend,
   isOverLimit |-> NumGt(todaySpend, dailyLimit),
   isNearLimit |-> NumLe(todaySpend, dailyLimit) /\ FracGe(limitPercentage, 80),
   limitPercentage |-> MathMin(limitPercentage, 100)]

StatsOfSpend(todaySpend, dailyLimit) ==
  DailyStats(todaySpend, dailyLimit, LimitPercentage(todaySpend, dailyLimit))

calculateDailyStats(expenses, dateStr, dailyLimit) ==
  StatsOfSpend(SumAmounts(Fin(0), TodaySpend(expenses, dateStr)), dailyLimit)

(* ------------------------------------------ browser storage and settings *)
\* a key of localStorage: absent, or the value that JSON.parse yields for
\* the text that was stored
Absent(empty) == [has |-> FALSE, val |-> empty]
Stored(val) == [has |-> TRUE, val |-> val]

\* JSON.parse(JSON.stringify(x)) for a number: NaN and the infinities are
\* written as null
JsonNumber(x) == IF x.k = "fin" THEN x ELSE [k |-> "null", neg |-> FALSE, m |-> 0, d |-> 0]

JsonExpenses(list) == [i \in 1..Len(list) |-> [list[i] EXCEPT !.amount = JsonNumber(@)]]

JsonSettings(appSettings) == [appSettings EXCEPT !.dailyLimit = JsonNumber(@)]

\* a settings object without the optional passwordHash key
NoHash == <<>>

DEFAULT_SETTINGS ==
  [dailyLimit |-> Fin(1000), currency |-> "rupee", categories |-> "DEFAULT_CATEGORIES",
   language |-> "en", passwordHash |-> NoHash]

EmptyStorage == [data |-> Absent(<<>>), settings |-> Absent(DEFAULT_SETTINGS)]

getExpenses(localStorage) ==
  IF localStorage.data.has THEN localStorage.data.val ELSE <<>>

saveExpenses(localStorage, list) ==
  [localStorage EXCEPT !.data = Stored(JsonExpenses(list))]

getSettings(localStorage) ==
  IF localStorage.settings.has THEN localStorage.settings.val ELSE DEFAULT_SETTINGS

saveSettings(localStorage, appSettings) ==
  [localStorage EXCEPT !.settings = Stored(JsonSettings(appSettings))]

\* localStorage.clear()
localStorageClear(localStorage) == EmptyStorage

\* the SHA-256 hash of a password, distinct for distinct passwords
hashPassword(password) == <<"sha256", password>>

\* crypto.randomUUID(): the n-th id that is generated
randomUUID(n) == <<"u">> \o NatToStr(n)

(* ------------------------------------------------- src/App.tsx handlers *)
\* the effects of a mount in the order of their declaration
MountEffects == <<"load", "save", "saveSettings">>

\* the steps of a mount: the effects, a second time when the mount effects
\* are run twice, and then the render with the state that they set
MountSteps(runs) ==
  IF runs = 1 THEN MountEffects \o <<"render">>
  ELSE MountEffects \o MountEffects \o <<"render">>

\* handleClearData up to its return: localStorage.clear(); saveExpenses([])
ClearedStorage(localStorage) == saveExpenses(localStorageClear(localStorage), <<>>)

\* reader.onload: the collection handed to onImportExpenses
MergedOnLoad_concat(snapshot, imported) == imported \o snapshot

MergedOnLoad(snapshot, imported) == mergeExpenses(snapshot, imported).merged

\* handleUnlock: the lock and the error after a password was submitted
UnlockResult(passwordHash, unlockPassword, unlockError) ==
  IF passwordHash = NoHash THEN [isLocked |-> TRUE, unlockError |-> unlockError]
  ELSE IF hashPassword(unlockPassword) = passwordHash
    THEN [isLocked |-> FALSE, unlockError |-> ""]
    ELSE [isLocked |-> TRUE, unlockError |-> "Incorrect password"]

\* handleChangePassword: the settings handed to onUpdateSettings, or the
\* settings as they are when the handler returns early
ChangedPassword(appSettings, oldPassword, newPassword, confirmed) ==
  IF appSettings.passwordHash # NoHash /\ hashPassword(oldPassword) # appSettings.passwordHash
    THEN appSettings
  ELSE IF newPassword = ""
    THEN IF confirmed THEN [appSettings EXCEPT !.passwordHash = NoHash] ELSE appSettings
  ELSE [appSettings EXCEPT !.passwordHash = hashPassword(newPassword)]

\* handleChangePassword: whether onUpdateSettings is called
PasswordUpdated(appSettings, oldPassword, newPassword, confirmed) ==
  /\ appSettings.passwordHash # NoHash => hashPassword(oldPassword) = appSettings.passwordHash
  /\ newPassword = "" => confirmed

(* ------------------------------------------------------------------ state *)
VARIABLES
  op,          \* the operation that was applied last, "none" before
  given,       \* the arguments of a list operation as they were passed
  current,     \* contents of the first array argument
  incoming,    \* contents of the second array argument (merge)
  ret,         \* returned collection
  stats,       \* returned counters (merge)
  retIsNew,    \* the returned array is a newly allocated one
  expenses,    \* the collection handed to generateCSVString
  csvText,     \* CSV text: the output of generateCSVString, the input of importExpenses
  decoded,     \* result of importExpenses(csvText)
  header,      \* column names of the input file
  rows,        \* data lines of the input file, each the sequence of its fields
  eol,         \* line terminator of the input file
  existing,    \* the existing collection handed to parseCSV
  parsed,      \* result of parseCSV(csvText, existing)
  permDecoded, \* result of importExpenses on the file with its columns permuted
  refDate,     \* the date handed to calculateDailyStats
  limit,       \* the daily limit handed to calculateDailyStats
  daily,       \* result of calculateDailyStats(current, refDate, limit)
  appExpenses, \* App: the state `expenses`
  appSettings, \* App: the state `settings`
  localStorage,\* the two keys of the browser storage
  queue,       \* App: the values handed to setExpenses and not yet rendered
  pending,     \* App: the effects and the render still to run
  runs,        \* how many times the mount effects are run (1, or 2 in strict mode)
  reads,       \* file reads in progress: the `expenses` of the closure and the text
  view,        \* App: the state `view`
  isLocked,    \* Settings: the state `isLocked`
  unlockError, \* Settings: the state `unlockError`
  nextId,      \* number of ids generated so far
  steps,       \* number of operations of the user so far
  arg,         \* the inputs of the last operation
  stored0      \* the expenses in the storage before the application started

logicVars == <<given, current, incoming, ret, stats, retIsNew>>
codecVars == <<expenses, csvText, decoded>>
tableVars == <<header, rows, eol, existing, parsed, permDecoded>>
statVars == <<refDate, limit, daily>>
appVars == <<appExpenses, appSettings, localStorage, queue, pending, runs, reads, view,
             isLocked, unlockError, nextId, steps, arg, stored0>>
vars == <<op, logicVars, codecVars, tableVars, statVars, appVars>>

NoStats == [added |-> 0, updated |-> 0, skipped |-> 0]
NoExpense == Expense(<<>>, <<>>, NaN, <<>>, <<>>, <<>>)
NoGiven == [current |-> <<>>, incoming |-> <<>>, item |-> NoExpense]
NoDecoded == [expenses |-> <<>>, errors |-> <<>>]
NoParsed == [newExpenses |-> <<>>, count |-> 0, errors |-> 0]
NoDaily == [todaySpend |-> Fin(0), isOverLimit |-> FALSE, isNearLimit |-> FALSE,
            limitPercentage |-> Frac(0, 1)]

LogicIdle ==
  /\ current = <<>> /\ incoming = <<>> /\ given = NoGiven
  /\ ret = <<>> /\ stats = NoStats /\ retIsNew = FALSE

CodecIdle == expenses = <<>> /\ csvText = <<>> /\ decoded = NoDecoded

TableIdle ==
  /\ header = <<>> /\ rows = <<>> /\ eol = <<"\n">> /\ existing = <<>>
  /\ parsed = NoParsed /\ permDecoded = NoDecoded

StatsIdle == refDate = <<>> /\ limit = Fin(0) /\ daily = NoDaily

NoArg == [snapshot |-> <<>>, text |-> <<>>, confirmed |-> FALSE, id |-> <<>>,
          password |-> "", newPassword |-> ""]

AppIdle ==
  /\ appExpenses = <<>> /\ appSettings = DEFAULT_SETTINGS /\ localStorage = EmptyStorage
  /\ queue = <<>> /\ pending = <<>> /\ runs = 1 /\ reads = <<>> /\ view = "dashboard"
  /\ isLocked = FALSE /\ unlockError = "" /\ nextId = 0 /\ steps = 0 /\ arg = NoArg
  /\ stored0 = <<>>

(* ------------------------------------------- list operations and merging *)
InitLogic ==
  /\ op = "none"
  /\ current \in SeqsUpTo(LogicPool, MaxCur)
  /\ incoming = <<>>
  /\ given = NoGiven
  /\ ret = <<>>
  /\ stats = NoStats
  /\ retIsNew = FALSE
  /\ CodecIdle
  /\ TableIdle
  /\ StatsIdle
  /\ AppIdle

CallAdd ==
  /\ op = "none"
  /\ \E e \in LogicPool :
       LET r == addExpenseToList(current, e) IN
       /\ given' = [current |-> current, incoming |-> <<>>, item |-> e]
       /\ current' = r.currentExpenses
       /\ ret' = r.ret
       /\ retIsNew' = r.isNew
  /\ op' = "add"
  /\ UNCHANGED <<incoming, stats, codecVars, tableVars, statVars, appVars>>

CallDelete ==
  /\ op = "none"
  /\ \E e \in LogicPool :
       LET r == deleteExpenseFromList(current, e.id) IN
       /\ given' = [current |-> current, incoming |-> <<>>, item |-> e]
       /\ current' = r.currentExpenses
       /\ ret' = r.ret
       /\ retIsNew' = r.isNew
  /\ op' = "delete"
  /\ UNCHANGED <<incoming, stats, codecVars, tableVars, statVars, appVars>>

CallEdit ==
  /\ op = "none"
  /\ \E e \in LogicPool :
       LET r == editExpenseInList(current, e) IN
       /\ given' = [current |-> current, incoming |-> <<>>, item |-> e]
       /\ current' = r.currentExpenses
       /\ ret' = r.ret
       /\ retIsNew' = r.isNew
  /\ op' = "edit"
  /\ UNCHANGED <<incoming, stats, codecVars, tableVars, statVars, appVars>>

CallMerge ==
  /\ op = "none"
  /\ \E inc \in SeqsUpTo(LogicPool, MaxInc) :
       LET r == mergeExpenses(current, inc) IN
       /\ given' = [current |-> current, incoming |-> inc, item |-> NoExpense]
       /\ current' = r.current
       /\ incoming' = r.incoming
       /\ ret' = r.merged
       /\ stats' = r.stats
       /\ retIsNew' = r.isNew
  /\ op' = "merge"
  /\ UNCHANGED <<codecVars, tableVars, statVars, appVars>>

NextLogic == CallAdd \/ CallDelete \/ CallEdit \/ CallMerge

SpecLogic == InitLogic /\ [][NextLogic]_vars

(* ------------------------------------------- export followed by import *)
Gas == <<"G", "a", "s">>
TagH == <<"h">>
TagW == <<"w">>

CodecBase(id) == Expense(id, D1, Fin(50), Food, Gas, <<TagH>>)

DescAlphabet == {"a", ",", "\""}

\* every description over the alphabet up to the bound, and some with white
\* space or a line break
Descriptions ==
  SeqsUpTo(DescAlphabet, MaxDescLen) \cup {<<" ", "a">>, <<"a", " ", "b">>, <<"a", "\n", "b">>}

Categories == {<<>>, <<"a", ",", "b">>, <<" ", "x">>}

Amounts == {Fin(0), Fin(-5), Dec(FALSE, 105, 1), Dec(FALSE, 5, 3)}

TagLists == {<<>>, <<TagH, TagW>>, <<<<"a", ";", "b">>>>, <<<<>>>>, <<<<" ", "h">>>>}

\* the records with one id: the base record with one field replaced
CodecRecords(id) ==
  {CodecBase(id)}
  \cup {[CodecBase(id) EXCEPT !.description = d] : d \in Descriptions}
  \cup {[CodecBase(id) EXCEPT !.category = c] : c \in Categories}
  \cup {[CodecBase(id) EXCEPT !.amount = a] : a \in Amounts}
  \cup {[CodecBase(id) EXCEPT !.tags = t] : t \in TagLists}

\* the id of the i-th record of a collection
CodecId(i) == NatToStr(i)

\* the records that accompany the varied one
Companions(id) ==
  <<CodecBase(id),
    [CodecBase(id) EXCEPT !.description = <<"a", ",", "\"">>],
    [CodecBase(id) EXCEPT !.amount = Dec(FALSE, 105, 1), !.tags = <<TagH, TagW>>]>>

\* collections with pairwise distinct ids: record i carries the i-th id, one
\* record is any record of the pool and the others are companions
Collections ==
  {<<>>} \cup
  UNION {UNION {{[i \in 1..n |-> IF i = k THEN r ELSE Companions(CodecId(i))[f[i]]] :
                   r \in CodecRecords(CodecId(k)), f \in [1..n -> 1..3]} :
                k \in 1..n} : n \in 1..MaxRecs}

InitCodec ==
  /\ op = "none"
  /\ expenses \in Collections
  /\ csvText = <<>>
  /\ decoded = NoDecoded
  /\ LogicIdle
  /\ TableIdle
  /\ StatsIdle
  /\ AppIdle

\* the export: the text of the file is generateCSVString(expenses)
CallGenerate ==
  /\ op = "none"
  /\ csvText' = generateCSVString(expenses)
  /\ op' = "encoded"
  /\ UNCHANGED <<expenses, decoded, logicVars, tableVars, statVars, appVars>>

\* the import of the exported text
CallImportExported ==
  /\ op = "encoded"
  /\ decoded' = importExpenses(csvText)
  /\ op' = "decoded"
  /\ UNCHANGED <<expenses, csvText, logicVars, tableVars, statVars, appVars>>

NextCodec == CallGenerate \/ CallImportExported

SpecCodec == InitCodec /\ [][NextCodec]_vars

(* ------------------------------------------------- import of a CSV file *)
\* the text of a file: the header names joined by commas, then one line per
\* row, the fields of a row joined by commas
BuildText(hdr, rws, terminator) ==
  Join(<<Join(hdr, <<",">>)>> \o [i \in 1..Len(rws) |-> Join(rws[i], <<",">>)], terminator)

BaseRow == <<<<"1">>, D1, <<"5", "0">>, Food, Gas, TagH>>

\* rows that differ from the base row in one field, in canonical column order
FieldVariants ==
  {[BaseRow EXCEPT ![1] = v] : v \in {<<"2">>, <<" ">>}}
  \cup {[BaseRow EXCEPT ![2] = v] : v \in {<<"2", "0", "2", "3", "-", "1", "-", "5">>}}
  \cup {[BaseRow EXCEPT ![3] = v] : v \in {<<"a", "b", "c">>, <<"1", "0", ".", "5", "0">>, <<"1", "2", "a", "b", "c">>, <<"I", "n", "f", "i", "n", "i", "t", "y">>}}
  \cup {[BaseRow EXCEPT ![4] = v] : v \in {<<>>}}
  \cup {[BaseRow EXCEPT ![5] = v] : v \in {<<"\"", "a", ",", "b", "\"">>, <<"\"", "a", "\"", "\"", "b", "\"">>}}
  \cup {[BaseRow EXCEPT ![6] = v] : v \in {<<" ", "t", "1", " ", ";", ";", " ", "t", "2">>, <<"\"", "t">>}}

\* a row failing several checks, rows with too few and too many fields, a
\* blank line and a line of white space
OtherRows ==
  {<<<<>>, <<"2", "0", "2", "3", "-", "1", "-", "5">>, <<"a", "b", "c">>, Food, Gas, TagH>>,
   <<<<"b", "a", "d", "_", "l", "i", "n", "e", "_", "d", "a", "t", "a">>>>,
   <<<<"3">>, D1, <<"5", "0">>, Food, Gas, TagH, <<"e", "x", "t", "r", "a">>>>,
   <<<<>>>>,
   <<<<" ", " ">>>>}

RowPool == {BaseRow} \cup FieldVariants \cup OtherRows

HeaderRowPool == {BaseRow, <<<<"b", "a", "d", "_", "l", "i", "n", "e", "_", "d", "a", "t", "a">>>>, <<<<"n", "o", "t", "e">>, <<"3">>, D1, <<"5", "0">>, Food, Gas, TagH>>}

Note == <<"n", "o", "t", "e">>

\* the six names in three orders, with a seventh column, with a repeated name
ValidHeaders ==
  {headers,
   <<ColTags, ColDescription, ColCategory, ColAmount, ColDate, ColId>>,
   <<Note, ColId, ColDate, ColAmount, ColCategory, ColDescription, ColTags>>,
   <<ColId, ColDate, ColAmount, ColCategory, ColDescription, ColTags, ColId>>}

\* headers that lack one of the six names, among them the header of the
\* repository's test, a misspelt name, a padded name and the empty line
DefectiveHeaders ==
  {SelectSeq(headers, LAMBDA n : n # m) : m \in Range(headers)}
  \cup {<<ColId, ColDate, ColAmount>>,
        <<ColId, <<"D", "a", "t", "e">>, ColAmount, ColCategory, ColDescription, ColTags>>,
        <<ColId, <<" ", "d", "a", "t", "e">>, ColAmount, ColCategory, ColDescription, ColTags>>,
        <<>>}

Eols == {<<"\n">>, <<"\r", "\n">>}

Permute(fields, p) == [i \in 1..Len(p) |-> fields[p[i]]]

\* column permutations: position i of the permuted file holds column p[i]
Perms == {<<6, 5, 4, 3, 2, 1>>, <<2, 3, 4, 5, 6, 1>>, <<5, 1, 2, 3, 4, 6>>}

IsBlankRow(row) == Len(row) = 1 /\ Trim(row[1]) = <<>>

PermuteRow(row, p) == IF IsBlankRow(row) THEN row ELSE Permute(row, p)

\* files of three and four data lines: a failing line between two valid ones,
\* and valid lines around a blank line
SampleTables ==
  {<<BaseRow, <<<<>>, <<"2", "0", "2", "3", "-", "1", "-", "5">>, <<"a", "b", "c">>, Food, Gas, TagH>>, [BaseRow EXCEPT ![1] = <<"2">>]>>,
   <<<<<<"b", "a", "d", "_", "l", "i", "n", "e", "_", "d", "a", "t", "a">>>>, BaseRow, <<<<>>>>, [BaseRow EXCEPT ![3] = <<"a", "b", "c">>]>>}

ExistingPool == {<<>>, <<CodecBase(<<"1">>)>>, <<CodecBase(<<"2">>), CodecBase(<<"3">>)>>}

InitTable ==
  /\ op = "none"
  /\ \/ /\ header \in ValidHeaders \cup DefectiveHeaders
        /\ rows \in SeqsUpTo(HeaderRowPool, MaxRows)
     \/ /\ header = headers
        /\ rows \in SeqsUpTo(RowPool, MaxRows)
     \/ /\ header \in ValidHeaders
        /\ rows \in SampleTables
  /\ eol \in Eols
  /\ csvText = BuildText(header, rows, eol)
  /\ expenses = <<>>
  /\ decoded = NoDecoded
  /\ existing = <<>>
  /\ parsed = NoParsed
  /\ permDecoded = NoDecoded
  /\ LogicIdle
  /\ StatsIdle
  /\ AppIdle

\* importExpenses on the text of the file
CallImport ==
  /\ op = "none"
  /\ decoded' = importExpenses(csvText)
  /\ op' = "import"
  /\ UNCHANGED <<expenses, csvText, logicVars, tableVars, statVars, appVars>>

\* parseCSV on the text of the file and an existing collection
CallParseCSV ==
  /\ op = "none"
  /\ \E ex \in ExistingPool :
       /\ given' = [current |-> ex, incoming |-> <<>>, item |-> NoExpense]
       /\ existing' = ExistingAfterParseCSV(csvText, ex)
       /\ parsed' = parseCSV(csvText, ex)
  /\ decoded' = importExpenses(csvText)
  /\ op' = "parseCSV"
  /\ UNCHANGED <<expenses, csvText, header, rows, eol, permDecoded, statVars, appVars>>
  /\ UNCHANGED <<current, incoming, ret, stats, retIsNew>>

\* importExpenses on the file and on the same file with the six columns of
\* the header and of every data row permuted
CallImportPermuted ==
  /\ op = "none"
  /\ Len(header) = 6 /\ Range(header) = Range(requiredCols)
  /\ \A i \in 1..Len(rows) : Len(rows[i]) = 6 \/ IsBlankRow(rows[i])
  /\ \E p \in Perms :
       /\ header' = Permute(header, p)
       /\ rows' = [i \in 1..Len(rows) |-> PermuteRow(rows[i], p)]
       /\ permDecoded' = importExpenses(
            BuildText(Permute(header, p), [i \in 1..Len(rows) |-> PermuteRow(rows[i], p)], eol))
  /\ decoded' = importExpenses(csvText)
  /\ op' = "importPermuted"
  /\ UNCHANGED <<expenses, csvText, eol, existing, parsed, logicVars, statVars, appVars>>

NextTable == CallImport \/ CallParseCSV \/ CallImportPermuted

SpecTable == InitTable /\ [][NextTable]_vars

(* ---------------------------------------------- statistics of a day *)
D2 == <<"2", "0", "2", "3", "-", "1", "0", "-", "2", "4">>
D3 == <<"2", "0", "2", "3", "-", "1", "0", "-", "2", "6">>

StatAmounts == {Fin(30), Fin(50), Fin(100), Dec(FALSE, 105, 1)}

\* records of two days, among them the three of the repository's test
StatsPool == {Expense(<<"1">>, dt, a, Food, Gas, <<>>) : dt \in {D1, D2}, a \in StatAmounts}

RefDates == {D1, D2, D3}

\* limits: none, the ones of the repository's test, the default, a negative
\* one, a fractional one and the NaN that parseFloat yields for an empty entry
Limits == {Fin(0), Fin(70), Fin(80), Fin(90), Fin(100), Fin(1000), Fin(-1), Dec(FALSE, 105, 1), NaN}

InitStats ==
  /\ op = "none"
  /\ current \in SeqsUpTo(StatsPool, MaxStat)
  /\ incoming = <<>> /\ given = NoGiven
  /\ ret = <<>> /\ stats = NoStats /\ retIsNew = FALSE
  /\ CodecIdle
  /\ TableIdle
  /\ StatsIdle
  /\ AppIdle

CallDailyStats ==
  /\ op = "none"
  /\ \E dt \in RefDates, lim \in Limits :
       /\ refDate' = dt
       /\ limit' = lim
       /\ daily' = calculateDailyStats(current, dt, lim)
  /\ op' = "dailyStats"
  /\ UNCHANGED <<logicVars, codecVars, tableVars, appVars>>

NextStats == CallDailyStats

SpecStats == InitStats /\ [][NextStats]_vars

(* ------------------------------------------------------ the application *)
nonAppVars == <<logicVars, codecVars, tableVars, statVars>>

Stored1 == CodecBase(<<"1">>)
Stored2 == CodecBase(<<"2">>)

\* files that the user may select: an id on two rows, a valid row and a
\* malformed one, a header without the required columns
ForeignFiles ==
  {BuildText(headers, <<BaseRow, [BaseRow EXCEPT ![3] = <<"5", "0", "0">>]>>, <<"\n">>),
   BuildText(headers, <<[BaseRow EXCEPT ![1] = <<"2">>], <<<<"b", "a", "d", "_", "l", "i", "n", "e", "_", "d", "a", "t", "a">>>>>>, <<"\n">>),
   BuildText(<<ColId, ColDate, ColAmount>>, <<<<<<"b", "a", "d", "_", "l", "i", "n", "e", "_", "d", "a", "t", "a">>>>>>, <<"\n">>)}

\* a file with a row of the first id that the application generated; an id
\* is in no file before it is generated
FilesAfter(generated) ==
  IF generated >= 1
    THEN {BuildText(headers, <<[BaseRow EXCEPT ![1] = randomUUID(1), ![3] = <<"5", "0", "0">>]>>, <<"\n">>)}
    ELSE {}

FileTexts(generated) == ForeignFiles \cup FilesAfter(generated)

Passwords == {"", "pw1", "pw2"}
LimitTexts == {<<"5", "0", "0">>, <<>>}
Views == {"dashboard", "expenses", "settings"}

Mounted(data, settings, n) ==
  /\ op = "none"
  /\ localStorage = [data |-> data, settings |-> settings]
  /\ runs = n
  /\ appExpenses = <<>>
  /\ appSettings = getSettings([data |-> data, settings |-> settings])
  /\ queue = <<>>
  /\ pending = MountSteps(n)
  /\ reads = <<>> /\ view = "dashboard" /\ isLocked = FALSE /\ unlockError = ""
  /\ nextId = 0 /\ steps = 0 /\ arg = NoArg
  /\ stored0 = getExpenses([data |-> data, settings |-> settings])
  /\ LogicIdle /\ ret = <<>> /\ stats = NoStats /\ retIsNew = FALSE
  /\ CodecIdle /\ TableIdle /\ StatsIdle

InitApp ==
  \E data \in {Absent(<<>>), Stored(<<>>), Stored(<<Stored1>>), Stored(<<Stored1, Stored2>>)},
     n \in 1..2 :
    Mounted(data, Absent(DEFAULT_SETTINGS), n)

InitLock ==
  \E data \in {Absent(<<>>), Stored(<<Stored1>>)},
     settings \in {Absent(DEFAULT_SETTINGS),
                   Stored([DEFAULT_SETTINGS EXCEPT !.passwordHash = hashPassword("pw1")])},
     n \in 1..2 :
    Mounted(data, settings, n)

\* useEffect(() => { setExpenses(getExpenses()) }, [])
RunLoadEffect ==
  /\ pending # <<>> /\ Head(pending) = "load"
  /\ queue' = Append(queue, getExpenses(localStorage))
  /\ pending' = Tail(pending)
  /\ op' = "loadEffect"
  /\ UNCHANGED <<appExpenses, appSettings, localStorage, runs, reads, view, isLocked,
                 unlockError, nextId, steps, arg, stored0, nonAppVars>>

\* useEffect(() => { saveExpenses(expenses) }, [expenses])
RunSaveEffect ==
  /\ pending # <<>> /\ Head(pending) = "save"
  /\ localStorage' = saveExpenses(localStorage, appExpenses)
  /\ pending' = Tail(pending)
  /\ op' = "saveEffect"
  /\ UNCHANGED <<appExpenses, appSettings, queue, runs, reads, view, isLocked,
                 unlockError, nextId, steps, arg, stored0, nonAppVars>>

\* useEffect(() => { saveSettings(settings) }, [settings])
RunSaveSettingsEffect ==
  /\ pending # <<>> /\ Head(pending) = "saveSettings"
  /\ localStorage' = saveSettings(localStorage, appSettings)
  /\ pending' = Tail(pending)
  /\ op' = "saveSettingsEffect"
  /\ UNCHANGED <<appExpenses, appSettings, queue, runs, reads, view, isLocked,
                 unlockError, nextId, steps, arg, stored0, nonAppVars>>

\* the render after the mount effects: the last value handed to setExpenses
\* becomes the state, and the save effect is due since the state changed
Render ==
  /\ pending # <<>> /\ Head(pending) = "render"
  /\ appExpenses' = IF queue = <<>> THEN appExpenses ELSE queue[Len(queue)]
  /\ queue' = <<>>
  /\ pending' = IF queue = <<>> THEN <<>> ELSE <<"save">>
  /\ op' = "render"
  /\ UNCHANGED <<appSettings, localStorage, runs, reads, view, isLocked,
                 unlockError, nextId, steps, arg, stored0, nonAppVars>>

\* an operation of the user is handled when no effect and no render is due
Ready == pending = <<>> /\ steps < MaxSteps

\* setExpenses followed by the render and the save effect
Commit(list) ==
  /\ appExpenses' = list
  /\ localStorage' = saveExpenses(localStorage, list)

\* handleSaveExpense without an id
AddExpense ==
  /\ Ready /\ nextId < MaxAdds
  /\ Commit(addExpenseToList(appExpenses,
        Expense(randomUUID(nextId + 1), D1, Fin(50), Food, Groceries, <<>>)).ret)
  /\ nextId' = nextId + 1
  /\ steps' = steps + 1
  /\ arg' = [NoArg EXCEPT !.id = randomUUID(nextId + 1)]
  /\ op' = "addExpense"
  /\ UNCHANGED <<appSettings, queue, pending, runs, reads, view, isLocked, unlockError,
                 stored0, nonAppVars>>

\* handleEditExpense and handleSaveExpense with the id of a listed record
EditExpense ==
  /\ Ready /\ view = "expenses"
  /\ \E i \in 1..Len(appExpenses) :
       /\ Commit(editExpenseInList(appExpenses,
             [appExpenses[i] EXCEPT !.amount = Fin(500), !.category = Changed]).ret)
       /\ arg' = [NoArg EXCEPT !.id = appExpenses[i].id]
  /\ steps' = steps + 1
  /\ op' = "editExpense"
  /\ UNCHANGED <<appSettings, queue, pending, runs, reads, view, isLocked, unlockError,
                 nextId, stored0, nonAppVars>>

\* handleDeleteExpense
DeleteExpense ==
  /\ Ready /\ view = "expenses"
  /\ \E i \in 1..Len(appExpenses), confirmed \in BOOLEAN :
       /\ IF confirmed
            THEN Commit(deleteExpenseFromList(appExpenses, appExpenses[i].id).ret)
            ELSE UNCHANGED <<appExpenses, localStorage>>
       /\ arg' = [NoArg EXCEPT !.id = appExpenses[i].id, !.confirmed = confirmed]
  /\ steps' = steps + 1
  /\ op' = "deleteExpense"
  /\ UNCHANGED <<appSettings, queue, pending, runs, reads, view, isLocked, unlockError,
                 nextId, stored0, nonAppVars>>

\* setView: the Settings component is mounted when its view is entered, with
\* isLocked = !!settings.passwordHash, and unmounted when it is left
SetView ==
  /\ Ready
  /\ \E v \in Views \ {view} :
       /\ view' = v
       /\ isLocked' = (v = "settings" /\ appSettings.passwordHash # NoHash)
  /\ unlockError' = ""
  /\ steps' = steps + 1
  /\ arg' = NoArg
  /\ op' = "setView"
  /\ UNCHANGED <<appExpenses, appSettings, localStorage, queue, pending, runs, reads,
                 nextId, stored0, nonAppVars>>
\* handleFileChange: the reader is started; its onload closes over the
\* `expenses` of the render in which the file was selected
FileChange ==
  /\ Ready /\ view = "settings" /\ ~isLocked /\ Len(reads) < MaxReads
  /\ \E text \in FileTexts(nextId) :
       /\ reads' = Append(reads, [expenses |-> appExpenses, text |-> text])
       /\ arg' = [NoArg EXCEPT !.snapshot = appExpenses, !.text = text]
  /\ steps' = steps + 1
  /\ op' = "fileChange"
  /\ UNCHANGED <<appExpenses, appSettings, localStorage, queue, pending, runs, view,
                 isLocked, unlockError, nextId, stored0, nonAppVars>>

\* the reads without the i-th
Without(list, i) == SubSeq(list, 1, i - 1) \o SubSeq(list, i + 1, Len(list))

\* reader.onload of a read in progress: the text is decoded, the user is
\* asked when there are problems, and the merge of the closure's `expenses`
\* with the decoded records is handed to handleImportExpenses
OnLoad(snapshot, imported, confirmed) ==
  IF imported.errors # <<>> /\ ~confirmed
    THEN /\ UNCHANGED <<appExpenses, localStorage>>
         /\ op' = "importDeclined"
    ELSE /\ Commit(MergedOnLoad(snapshot, imported.expenses))
         /\ op' = "importApplied"

ReaderOnload ==
  /\ pending = <<>>
  /\ \E i \in 1..Len(reads), confirmed \in BOOLEAN :
       /\ OnLoad(reads[i].expenses, importExpenses(reads[i].text), confirmed)
       /\ reads' = Without(reads, i)
       /\ arg' = [NoArg EXCEPT !.snapshot = reads[i].expenses, !.text = reads[i].text,
                               !.confirmed = confirmed]
  /\ UNCHANGED <<appSettings, queue, pending, runs, view, isLocked, unlockError,
                 nextId, steps, stored0, nonAppVars>>

\* the clear button of Settings and handleClearData, then the render and the
\* save effect for the new `expenses`
ClearData ==
  /\ Ready /\ view = "settings" /\ ~isLocked
  /\ \E confirmed \in BOOLEAN :
       /\ IF confirmed
            THEN /\ appExpenses' = <<>>
                 /\ localStorage' = saveExpenses(ClearedStorage(localStorage), <<>>)
            ELSE UNCHANGED <<appExpenses, localStorage>>
       /\ arg' = [NoArg EXCEPT !.confirmed = confirmed]
  /\ steps' = steps + 1
  /\ op' = "clearData"
  /\ UNCHANGED <<appSettings, queue, pending, runs, reads, view, isLocked, unlockError,
                 nextId, stored0, nonAppVars>>

\* the page is loaded again: the states are initialised anew and the mount
\* effects are due
Reload ==
  /\ Ready
  /\ appExpenses' = <<>>
  /\ appSettings' = getSettings(localStorage)
  /\ queue' = <<>>
  /\ pending' = MountSteps(runs)
  /\ reads' = <<>> /\ view' = "dashboard" /\ isLocked' = FALSE /\ unlockError' = ""
  /\ stored0' = getExpenses(localStorage)
  /\ steps' = steps + 1
  /\ arg' = NoArg
  /\ op' = "reload"
  /\ UNCHANGED <<localStorage, runs, nextId, nonAppVars>>

\* handleUnlock
Unlock ==
  /\ Ready /\ view = "settings" /\ isLocked
  /\ \E password \in Passwords :
       /\ isLocked' = UnlockResult(appSettings.passwordHash, password, unlockError).isLocked
       /\ unlockError' = UnlockResult(appSettings.passwordHash, password, unlockError).unlockError
       /\ arg' = [NoArg EXCEPT !.password = password]
  /\ steps' = steps + 1
  /\ op' = "unlock"
  /\ UNCHANGED <<appExpenses, appSettings, localStorage, queue, pending, runs, reads, view,
                 nextId, stored0, nonAppVars>>

\* onUpdateSettings followed by the render and the settings save effect
CommitSettings(updated) ==
  /\ appSettings' = updated
  /\ localStorage' = saveSettings(localStorage, updated)

\* handleChangePassword
ChangePassword ==
  /\ Ready /\ view = "settings" /\ ~isLocked
  /\ \E oldPassword \in Passwords, newPassword \in Passwords, confirmed \in BOOLEAN :
       /\ IF PasswordUpdated(appSettings, oldPassword, newPassword, confirmed)
            THEN CommitSettings(ChangedPassword(appSettings, oldPassword, newPassword, confirmed))
            ELSE UNCHANGED <<appSettings, localStorage>>
       /\ arg' = [NoArg EXCEPT !.password = oldPassword, !.newPassword = newPassword,
                               !.confirmed = confirmed]
  /\ steps' = steps + 1
  /\ op' = "changePassword"
  /\ UNCHANGED <<appExpenses, queue, pending, runs, reads, view, isLocked, unlockError,
                 nextId, stored0, nonAppVars>>

\* handleSaveLimit
SaveLimit ==
  /\ Ready /\ view = "settings" /\ ~isLocked
  /\ \E text \in LimitTexts :
       /\ CommitSettings([appSettings EXCEPT !.dailyLimit = parseFloat(text)])
       /\ arg' = [NoArg EXCEPT !.text = text]
  /\ steps' = steps + 1
  /\ op' = "saveLimit"
  /\ UNCHANGED <<appExpenses, queue, pending, runs, reads, view, isLocked, unlockError,
                 nextId, stored0, nonAppVars>>

NextApp ==
  \/ RunLoadEffect \/ RunSaveEffect \/ RunSaveSettingsEffect \/ Render
  \/ AddExpense \/ EditExpense \/ DeleteExpense \/ SetView
  \/ FileChange \/ ReaderOnload \/ ClearData \/ Reload

SpecApp == InitApp /\ [][NextApp]_vars

NextLock ==
  \/ RunLoadEffect \/ RunSaveEffect \/ RunSaveSettingsEffect \/ Render
  \/ SetView \/ Unlock \/ ChangePassword \/ SaveLimit \/ ClearData \/ Reload

SpecLock == InitLock /\ [][NextLock]_vars

(* ------------------------------------------------ vocabulary of the claims *)
IdsOf(s) == {s[i].id : i \in 1..Len(s)}

WithId(s, id) == SelectSeq(s, LAMBDA e : e.id = id)

LastWithId(s, id) == WithId(s, id)[Len(WithId(s, id))]

DistinctIds(s) == \A i, j \in 1..Len(s) : s[i].id = s[j].id => i = j

RECURSIVE FirstSeenIds(_, _)
\* the ids of s in the order of their first occurrence, leaving out seen
FirstSeenIds(s, seen) ==
  IF s = <<>> THEN <<>>
  ELSE IF Head(s).id \in seen THEN FirstSeenIds(Tail(s), seen)
  ELSE <<Head(s).id>> \o FirstSeenIds(Tail(s), seen \cup {Head(s).id})

IdSeq(s) == [i \in 1..Len(s) |-> s[i].id]

C5_IdempotentMerge ==
  (op = "merge" /\ given.incoming = given.current /\ DistinctIds(given.current)) =>
    /\ ret = given.current
    /\ stats.updated = Len(given.current)
    /\ stats.added = 0

C5_Witness ==
  /\ op = "merge"
  /\ given.incoming = given.current
  /\ DistinctIds(given.current)
  /\ Len(given.current) >= 2
  /\ ret = given.current
  /\ stats.updated = Len(given.current)

(* ------------------------------------------------------------------ C6 *)
\* C6: mergeExpenses returns skipped = 0 and added + updated = length of
\* incoming, added being the number of distinct ids of incoming that are
\* absent from current; the length of merged is the number of distinct ids
\* of current plus added.
C6_MergeCounters ==
  op = "merge" =>
    /\ stats.skipped = 0
    /\ stats.added + stats.updated = Len(given.incoming)
    /\ stats.added = Cardinality(IdsOf(given.incoming) \ IdsOf(given.current))
    /\ Len(ret) = Cardinality(IdsOf(given.current)) + stats.added

\* incoming repeats a new id and also hits an id of current, and current
\* itself repeats an id
C6_Witness ==
  /\ op = "merge"
  /\ Len(given.incoming) = 3
  /\ stats.added = 1 /\ stats.updated = 2
  /\ \E id \in IdsOf(given.incoming) \ IdsOf(given.current) :
       Len(WithId(given.incoming, id)) = 2
  /\ Len(given.current) = 2 /\ ~DistinctIds(given.current)
  /\ Len(ret) = 2

(* ------------------------------------------------------------------ C7 *)
\* C7: in merged the ids of current come first, in the order of their first
\* occurrence in current (also when the record was overwritten), followed
\* by the ids that occur only in incoming, in the order of their first
\* occurrence in incoming.
C7_MergeOrder ==
  op = "merge" =>
    IdSeq(ret) = FirstSeenIds(given.current, {})
                   \o FirstSeenIds(given.incoming, IdsOf(given.current))

\* both records of current are overwritten by differing incoming records, in
\* reverse order and after an incoming-only record: they keep their places
C7_Witness ==
  /\ op = "merge"
  /\ Len(given.current) = 2 /\ DistinctIds(given.current)
  /\ Len(given.incoming) = 3
  /\ given.incoming[1].id \notin IdsOf(given.current)
  /\ given.incoming[2].id = given.current[2].id
  /\ given.incoming[2] # given.current[2]
  /\ given.incoming[3].id = given.current[1].id
  /\ given.incoming[3] # given.current[1]
  /\ ret = <<given.incoming[3], given.incoming[2], given.incoming[1]>>

IsSubstring(part, s) ==
  \E i \in 0..(Len(s) - Len(part)) : SubSeq(s, i + 1, i + Len(part)) = part

\* C1: for a well-formed collection x (distinct non-empty ids, dates of form
\* YYYY-MM-DD, finite amounts, free-form category, description and tags),
\* importExpenses(generateCSVString(x)) returns the records of x, equal field
\* for field and in the same order, and no errors.
C1_RoundTrip ==
  op = "decoded" => (decoded.expenses = expenses /\ decoded.errors = <<>>)

(* ------------------------------------------------------------------ C2 *)
\* C2: a description that contains a comma or a double quote is emitted by
\* generateCSVString wrapped in double quotes with every embedded quote
\* doubled, and importExpenses of that output returns the record of that id
\* with exactly the original description.
C2_Escaping ==
  op = "decoded" =>
    \A i \in 1..Len(expenses) :
      (Includes(expenses[i].description, ",") \/ Includes(expenses[i].description, "\"")) =>
        /\ IsSubstring(<<",", "\"">> \o DoubleQuotes(expenses[i].description) \o <<"\"", ",">>,
                       csvText)
        /\ \E j \in 1..Len(decoded.expenses) :
             /\ decoded.expenses[j].id = expenses[i].id
             /\ decoded.expenses[j].description = expenses[i].description

(* ------------------------------------------------------------------ C9 *)
FewerThanTwoLines(text) == ~Includes(text, "\n")

LacksRequiredName(hdr) == \E i \in 1..Len(requiredCols) : requiredCols[i] \notin Range(hdr)

\* C9: when the input text has fewer than 2 lines, or its header line lacks
\* one of the six names, importExpenses returns no record and exactly one
\* problem, a file-level one, whatever the data lines hold; parseCSV then
\* reports count = 0 and errors = 1.
C9_FileLevelFailure ==
  (op \in {"import", "parseCSV"} /\ (FewerThanTwoLines(csvText) \/ LacksRequiredName(header))) =>
    /\ decoded.expenses = <<>>
    /\ Len(decoded.errors) = 1
    /\ decoded.errors[1].line = 0
    /\ op = "parseCSV" => (parsed.newExpenses = <<>> /\ parsed.count = 0 /\ parsed.errors = 1)

\* the header of the repository's test (three names) above a line that is a
\* valid row under the full header and a line of one field
C9_Witness ==
  /\ op = "parseCSV"
  /\ header = <<ColId, ColDate, ColAmount>>
  /\ rows = <<BaseRow, <<<<"b", "a", "d", "_", "l", "i", "n", "e", "_", "d", "a", "t", "a">>>>>>
  /\ decoded.expenses = <<>>
  /\ parsed.count = 0 /\ parsed.errors = 1

(* ------------------------------------------------------------------ C10 *)
\* C10 as stated: permuting the six header names and the fields of every
\* data row in the same way does not change the result of importExpenses.
C10_AnyFields ==
  op = "importPermuted" => permDecoded = decoded

QuotesBalanced(field) == Cardinality({i \in 1..Len(field) : field[i] = "\""}) % 2 = 0

\* C10 amended: when in every field of every data row the double quotes are
\* balanced, permuting the six header names and the fields of every data row
\* in the same way does not change the result of importExpenses: the same
\* records in the same order and the same problems.
C10_ColumnLookup ==
  (op = "importPermuted"
     /\ \A i \in 1..Len(rows) : \A k \in 1..Len(rows[i]) : QuotesBalanced(rows[i][k])) =>
    permDecoded = decoded

\* a permuted file with a quoted description that holds a comma and a row
\* with a bad date: one record and one problem either way
C10_Witness ==
  /\ op = "importPermuted"
  /\ header # headers
  /\ Len(rows) = 2
  /\ \A i \in 1..Len(rows) : \A k \in 1..Len(rows[i]) : QuotesBalanced(rows[i][k])
  /\ Len(decoded.expenses) = 1
  /\ decoded.expenses[1].description = <<"a", ",", "b">>
  /\ Len(decoded.errors) = 1
  /\ decoded.errors[1] = RowError(2, "Invalid Date format (YYYY-MM-DD required)")
  /\ permDecoded = decoded


(* ------------------------------------------------ rows of an imported file *)
\* the text of a data line and whether it is blank
RowText(row) == Join(row, <<",">>)
NonBlank(row) == Trim(RowText(row)) # <<>>
NonBlankRows == {i \in 1..Len(rows) : NonBlank(rows[i])}

\* the header of the file has the six names and the file has a data line
ValidHeader == ~LacksRequiredName(header)
HasDataLine == Len(SplitLines(csvText)) >= 2

\* the i-th data line imported alone under the header of the file
Alone(i) == importExpenses(BuildText(header, <<rows[i]>>, eol))

RECURSIVE RecordsOfRows(_)
RecordsOfRows(n) == IF n = 0 THEN <<>> ELSE RecordsOfRows(n - 1) \o Alone(n).expenses

\* the data lines that yield a record, in the order of the file
AcceptedRows == SelectSeq([i \in 1..Len(rows) |-> i], LAMBDA i : Alone(i).expenses # <<>>)

PartialSuccess ==
  /\ Len(decoded.expenses) + Len(decoded.errors) = Cardinality(NonBlankRows)
  /\ \A i \in NonBlankRows : Len(Alone(i).expenses) + Len(Alone(i).errors) = 1
  /\ decoded.expenses = RecordsOfRows(Len(rows))

\* C11 as stated: for every file whose header has the six names, the records
\* and the problems together number the non-blank data lines, every non-blank
\* line yields one record or one problem, and the records are those of the
\* lines taken alone, in the order of the file.
C11_EveryValidHeader == (op = "import" /\ ValidHeader) => PartialSuccess

\* C11 amended: the same for every file that has the six names in its header
\* and at least one line after the header; a file of the header line alone
\* is rejected with one file-level problem.
C11_PartialSuccess == (op = "import" /\ ValidHeader /\ HasDataLine) => PartialSuccess

\* a failing line between two valid lines: two records and one problem
C11_Witness ==
  /\ op = "import" /\ ValidHeader /\ Len(rows) = 3
  /\ Alone(1).expenses # <<>> /\ Alone(2).errors # <<>> /\ Alone(3).expenses # <<>>
  /\ Len(decoded.expenses) = 2 /\ Len(decoded.errors) = 1
  /\ decoded.expenses[1].id = <<"1">> /\ decoded.expenses[2].id = <<"2">>

\* the field of a row in the column that the header names
FieldOf(row, name) == row[CHOOSE p \in 1..Len(header) : header[p] = name /\ \A q \in 1..(p - 1) : header[q] # name]

\* the first check a row fails, "" when it passes all four
FirstFailure(row) ==
  IF Len(row) < Len(header) THEN "Insufficient columns"
  ELSE IF Trim(FieldOf(row, ColId)) = <<>> THEN "Missing ID"
  ELSE IF ~MatchesDate(Trim(FieldOf(row, ColDate))) THEN "Invalid Date format (YYYY-MM-DD required)"
  ELSE IF isNaN(parseFloat(Trim(FieldOf(row, ColAmount)))) THEN "Invalid Amount"
  ELSE ""

FailingRows == SelectSeq([i \in 1..Len(rows) |-> i], LAMBDA i : NonBlank(rows[i]) /\ FirstFailure(rows[i]) # "")

\* C12: the problems are, in the order of the file, one per failing row,
\* each with the message of the first check the row fails (columns, id, date,
\* amount) and the 1-based number of its line, the header being line 1 and
\* blank lines being counted.
C12_ValidationOrder ==
  (op = "import" /\ ValidHeader /\ HasDataLine) =>
    decoded.errors = [k \in 1..Len(FailingRows) |->
                        [line |-> FailingRows[k] + 1, message |-> FirstFailure(rows[FailingRows[k]])]]

\* a row with no id, a malformed date and a malformed amount, after a blank
\* line: one problem, for the id, at line 3
C12_Witness ==
  /\ op = "import" /\ header = headers /\ Len(rows) = 2
  /\ ~NonBlank(rows[1]) /\ Len(rows[2]) = 6
  /\ Trim(rows[2][1]) = <<>> /\ ~MatchesDate(rows[2][2]) /\ isNaN(parseFloat(rows[2][3]))
  /\ decoded.errors = <<[line |-> 3, message |-> "Missing ID"]>>


\* a decimal numeral: an optional sign, then digits with at most one point
\* among them
IsDecimalText(t) ==
  LET u == IF t # <<>> /\ t[1] \in {"+", "-"} THEN Drop(t, 1) ELSE t IN
  /\ \A i \in 1..Len(u) : IsDigit(u[i]) \/ u[i] = "."
  /\ \E i \in 1..Len(u) : IsDigit(u[i])
  /\ Cardinality({i \in 1..Len(u) : u[i] = "."}) <= 1

\* the rows that pass the checks of the columns, the id and the date
ReachAmountCheck ==
  {i \in NonBlankRows :
     /\ Len(rows[i]) >= Len(header)
     /\ Trim(FieldOf(rows[i], ColId)) # <<>>
     /\ MatchesDate(Trim(FieldOf(rows[i], ColDate)))}

\* C13: every returned record has a non-empty id, a date of four, two and
\* two digits and a finite amount; a row whose amount text is not a finite
\* decimal numeral is reported as "Invalid Amount" and yields no record.
C13_DecodedRecords ==
  (op = "import" /\ ValidHeader /\ HasDataLine) =>
    /\ \A k \in 1..Len(decoded.expenses) :
         /\ decoded.expenses[k].id # <<>>
         /\ MatchesDate(decoded.expenses[k].date)
         /\ decoded.expenses[k].amount.k = "fin"
    /\ \A i \in ReachAmountCheck :
         ~IsDecimalText(Trim(FieldOf(rows[i], ColAmount))) =>
           /\ Alone(i).expenses = <<>>
           /\ Alone(i).errors = <<[line |-> 2, message |-> "Invalid Amount"]>>


\* the trimmed field that the scanner yields for a row in the column that
\* the header names
ScannedField(row, name) ==
  Trim(FieldOf(ScanRow(Trim(RowText(row))), name))

\* the pieces of a text between its semicolons
RECURSIVE Pieces(_)
Pieces(s) ==
  IF \A i \in 1..Len(s) : s[i] # ";" THEN <<s>>
  ELSE LET p == CHOOSE i \in 1..Len(s) : s[i] = ";" /\ \A j \in 1..(i - 1) : s[j] # ";" IN
       <<SubSeq(s, 1, p - 1)>> \o Pieces(SubSeq(s, p + 1, Len(s)))

TrimmedPieces(s) == SelectSeq([i \in 1..Len(Pieces(s)) |-> Trim(Pieces(s)[i])], LAMBDA t : t # <<>>)

\* C14: the record of an accepted row has the category "Uncategorized" when
\* the category field is empty and the field itself otherwise; its tags are
\* the pieces of the tags field between semicolons, trimmed, without the
\* empty ones, in order, so no tag is empty or has white space around it.
C14_Normalisation ==
  (op = "import" /\ ValidHeader /\ HasDataLine) =>
    /\ Len(decoded.expenses) = Len(AcceptedRows)
    /\ \A k \in 1..Len(AcceptedRows) :
         LET row == rows[AcceptedRows[k]]
             e == decoded.expenses[k] IN
         /\ ScannedField(row, ColCategory) = <<>> => e.category = Uncategorized
         /\ ScannedField(row, ColCategory) # <<>> => e.category = ScannedField(row, ColCategory)
         /\ e.tags = TrimmedPieces(ScannedField(row, ColTags))
         /\ \A t \in Range(e.tags) : t # <<>> /\ Trim(t) = t

\* a row with an empty category and a row with padded tags and an empty piece
C14_Witness ==
  /\ op = "import" /\ header = headers /\ Len(rows) = 2
  /\ Len(rows[1]) = 6 /\ Len(rows[2]) = 6
  /\ rows[1][4] = <<>>
  /\ rows[2][6] = <<" ", "t", "1", " ", ";", ";", " ", "t", "2">>
  /\ Len(decoded.expenses) = 2
  /\ decoded.expenses[1].category = Uncategorized
  /\ decoded.expenses[2].category = Food
  /\ decoded.expenses[2].tags = <<<<"t", "1">>, <<"t", "2">>>>


\* the records of a sequence whose id is not in a set, in order
RECURSIVE WithoutIds(_, _)
WithoutIds(seq, ids) ==
  IF seq = <<>> THEN <<>>
  ELSE IF seq[1].id \in ids THEN WithoutIds(Tail(seq), ids)
  ELSE <<seq[1]>> \o WithoutIds(Tail(seq), ids)

\* C15: parseCSV returns as newExpenses the records of importExpenses on the
\* same text whose id is not an id of the existing collection, in order, as
\* count their number and as errors the number of problems of importExpenses;
\* the existing collection is as it was passed.
C15_DuplicateFilter ==
  op = "parseCSV" =>
    /\ parsed.newExpenses = WithoutIds(decoded.expenses, IdsOf(given.current))
    /\ parsed.count = Len(parsed.newExpenses)
    /\ parsed.errors = Len(decoded.errors)
    /\ existing = given.current

\* two records decoded and a problem, one of the records has an existing id
C15_Witness ==
  /\ op = "parseCSV"
  /\ existing # <<>>
  /\ Len(decoded.expenses) = 2 /\ Len(decoded.errors) = 1
  /\ decoded.expenses[1].id \in IdsOf(existing)
  /\ decoded.expenses[2].id \notin IdsOf(existing)
  /\ parsed.count = 1 /\ parsed.errors = 1


(* ------------------------------------------------ statistics of a day *)
\* the largest number of fraction digits among the amounts and the limit
FractionDigits ==
  LET ds == {0, limit.d} \cup {current[i].amount.d : i \in 1..Len(current)} IN
  CHOOSE m \in ds : \A n \in ds : n <= m

\* the amounts of the first n records dated refDate, added up in units of
\* 10^(-FractionDigits)
RECURSIVE UnitsOfDay(_)
UnitsOfDay(n) ==
  IF n = 0 THEN 0
  ELSE UnitsOfDay(n - 1)
       + (IF current[n].date = refDate THEN Scaled(current[n].amount, FractionDigits) ELSE 0)

SpendUnits == UnitsOfDay(Len(current))
LimitUnits == Scaled(limit, FractionDigits)

\* C16: with the limit 0 and a positive spend of the day the result has
\* isOverLimit = true and limitPercentage = 100.
C16_ZeroLimit ==
  (op = "dailyStats" /\ limit = Fin(0) /\ SpendUnits > 0) =>
    /\ daily.isOverLimit
    /\ FracEq(daily.limitPercentage, 100)

\* todaySpend / limit * 100 >= 80, the quotient by 0 being +Infinity for a
\* positive spend and NaN for the spend 0
RatioAtLeast80 ==
  /\ limit.k = "fin"
  /\ IF LimitUnits > 0 THEN 100 * SpendUnits >= 80 * LimitUnits
     ELSE IF LimitUnits < 0 THEN 100 * SpendUnits <= 80 * LimitUnits
     ELSE SpendUnits > 0

\* C17: isNearLimit is true exactly when the spend of the day is at most the
\* limit and the uncapped ratio spend / limit * 100 is at least 80; a spend
\* equal to a positive limit is near the limit and not over it; isNearLimit
\* and isOverLimit are never both true.
C17_NearLimit ==
  op = "dailyStats" =>
    /\ daily.isNearLimit <=> (limit.k = "fin" /\ SpendUnits <= LimitUnits /\ RatioAtLeast80)
    /\ (limit.k = "fin" /\ LimitUnits > 0 /\ SpendUnits = LimitUnits) =>
         (daily.isNearLimit /\ ~daily.isOverLimit)
    /\ ~(daily.isNearLimit /\ daily.isOverLimit)

\* a spend of exactly 80 percent of the limit
C17_Witness ==
  /\ op = "dailyStats" /\ limit = Fin(100) /\ refDate = D1
  /\ daily.todaySpend = Fin(80)
  /\ daily.isNearLimit /\ ~daily.isOverLimit
  /\ FracEq(daily.limitPercentage, 80)

\* C18: todaySpend is the sum of the amounts of exactly the records whose
\* date equals the reference date, 0 when there is none, and isOverLimit is
\* true exactly when todaySpend is greater than the limit.
C18_DailyTotal ==
  op = "dailyStats" =>
    /\ daily.todaySpend.k = "fin"
    /\ daily.todaySpend.d <= FractionDigits
    /\ Scaled(daily.todaySpend, FractionDigits) = SpendUnits
    /\ (\A i \in 1..Len(current) : current[i].date # refDate) => daily.todaySpend = Fin(0)
    /\ daily.isOverLimit <=> (limit.k = "fin" /\ SpendUnits > LimitUnits)

\* the collection of the repository's test: 50 and 30 on the day, 100 on the
\* day before, limit 70
C18_Witness ==
  /\ op = "dailyStats" /\ refDate = D1 /\ limit = Fin(70)
  /\ Len(current) = 3
  /\ \E i \in 1..3 : current[i].date = D2 /\ current[i].amount = Fin(100)
  /\ daily.todaySpend = Fin(80)
  /\ daily.isOverLimit


(* ------------------------------------------------ format of the export *)
HeaderLine == <<"i", "d", ",", "d", "a", "t", "e", ",", "a", "m", "o", "u", "n", "t", ",", "c", "a", "t", "e", "g", "o", "r", "y", ",", "d", "e", "s", "c", "r", "i", "p", "t", "i", "o", "n", ",", "t", "a", "g", "s">>

\* the tags with a semicolon between neighbours
RECURSIVE TagsText(_)
TagsText(tags) ==
  IF tags = <<>> THEN <<>>
  ELSE IF Len(tags) = 1 THEN tags[1]
  ELSE tags[1] \o <<";">> \o TagsText(Tail(tags))

NeedsQuotes(text) == \E i \in 1..Len(text) : text[i] \in {",", "\""}

\* the description as it stands, or between quotes with its quotes doubled
DescriptionText(description) ==
  IF NeedsQuotes(description)
    THEN <<"\"">> \o DoubleQuotes(description) \o <<"\"">>
    ELSE description

RowOf(e) ==
  e.id \o <<",">> \o e.date \o <<",">> \o NumberToString(e.amount) \o <<",">>
  \o e.category \o <<",">> \o DescriptionText(e.description) \o <<",">> \o TagsText(e.tags)

\* the header line followed by a newline and a row for each of the first n
\* records
RECURSIVE TextOfFirst(_)
TextOfFirst(n) ==
  IF n = 0 THEN HeaderLine ELSE TextOfFirst(n - 1) \o <<"\n">> \o RowOf(expenses[n])

\* C19: the exported text is the header line followed by one row per record
\* in order, each preceded by one newline, nothing after the last row; a row
\* is the fields in header order with commas between them, the tags with
\* semicolons between them, and the description alone is put between quotes,
\* when it holds a comma or a quote.
C19_EncodeFormat == op \in {"encoded", "decoded"} => csvText = TextOfFirst(Len(expenses))

\* two records, a category with a comma that stays bare and a description
\* with a comma that is quoted
C19_Witness ==
  /\ op = "encoded" /\ Len(expenses) = 2
  /\ \E i \in 1..2 : NeedsQuotes(expenses[i].category)
  /\ \E i \in 1..2 : NeedsQuotes(expenses[i].description)
  /\ csvText[Len(csvText)] # "\n"
  /\ Len(SplitLines(csvText)) = 3

\* C20: a record whose description holds a newline is exported and imported
\* back as one record with the same description, with no problem reported,
\* and every other record of the collection is decoded as it is when
\* exported alone.
C20_NewlineRoundTrip ==
  (op = "decoded" /\ \E i \in 1..Len(expenses) : Includes(expenses[i].description, "\n")) =>
    /\ decoded.errors = <<>>
    /\ \A i \in 1..Len(expenses) :
         Includes(expenses[i].description, "\n") =>
           /\ Cardinality({k \in 1..Len(decoded.expenses) : decoded.expenses[k].id = expenses[i].id}) = 1
           /\ \E k \in 1..Len(decoded.expenses) :
                /\ decoded.expenses[k].id = expenses[i].id
                /\ decoded.expenses[k].description = expenses[i].description
    /\ \A i \in 1..Len(expenses) :
         ~Includes(expenses[i].description, "\n") =>
           \A r \in Range(importExpenses(generateCSVString(<<expenses[i]>>)).expenses) :
             r \in Range(decoded.expenses)


(* ------------------------------------------------ the three list operations *)
\* C22: addExpenseToList returns the new record followed by the records of
\* the collection in their order, one record more than the collection.
C22_AddPrepends ==
  op = "add" =>
    /\ Len(ret) = Len(given.current) + 1
    /\ ret[1] = given.item
    /\ \A i \in 1..Len(given.current) : ret[i + 1] = given.current[i]

C22_Witness ==
  /\ op = "add" /\ Len(given.current) = 2
  /\ given.current[1] # given.current[2]
  /\ ret = <<given.item, given.current[1], given.current[2]>>

\* C23: deleteExpenseFromList returns the collection without every record of
\* the given id, the others in their order; when no record has the id the
\* result equals the collection.
C23_DeleteFilters ==
  op = "delete" =>
    /\ ret = WithoutIds(given.current, {given.item.id})
    /\ \A i \in 1..Len(ret) : ret[i].id # given.item.id
    /\ given.item.id \notin IdsOf(given.current) => ret = given.current

\* two records of the id around none, or one of them beside another record
C23_Witness ==
  /\ op = "delete" /\ Len(given.current) = 2
  /\ given.current[1].id = given.item.id
  /\ given.current[2].id # given.item.id
  /\ ret = <<given.current[2]>>

\* C24: editExpenseInList returns a collection of the same length in which
\* the records of the id of the update are the update and every other record
\* is as it was; when no record has the id the result equals the collection.
C24_EditReplaces ==
  op = "edit" =>
    /\ Len(ret) = Len(given.current)
    /\ \A i \in 1..Len(ret) :
         ret[i] = IF given.current[i].id = given.item.id THEN given.item ELSE given.current[i]
    /\ given.item.id \notin IdsOf(given.current) => ret = given.current

C24_Witness ==
  /\ op = "edit" /\ Len(given.current) = 2
  /\ given.current[1].id # given.item.id
  /\ given.current[2].id = given.item.id /\ given.current[2] # given.item
  /\ ret = <<given.current[1], given.item>>


(* ------------------------------------------------ quotes in a split row *)
\* the fields of a line from its i-th character on: a quote toggles inQ and
\* stays in the field, a comma outside quotes ends the field
RECURSIVE FieldsFrom(_, _, _, _)
FieldsFrom(line, i, inQ, field) ==
  IF i > Len(line) THEN <<field>>
  ELSE IF line[i] = "\"" THEN FieldsFrom(line, i + 1, ~inQ, Append(field, line[i]))
  ELSE IF line[i] = "," /\ ~inQ THEN <<field>> \o FieldsFrom(line, i + 1, inQ, <<>>)
  ELSE FieldsFrom(line, i + 1, inQ, Append(field, line[i]))

QuotedFields(row) == FieldsFrom(Trim(RowText(row)), 1, FALSE, <<>>)

\* a text between quotes loses them and has its doubled quotes made single
WithoutOuterQuotes(t) ==
  IF t # <<>> /\ t[1] = "\"" /\ t[Len(t)] = "\""
    THEN UndoubleQuotes(SubSeq(t, 2, Len(t) - 1))
    ELSE t

\* C25: the fields of an accepted row are the texts between the commas that
\* are outside quotes, with their quote characters; the record has the id,
\* the category and the tags of these fields as they are, and the
\* description with its outer quotes removed and its doubled quotes made
\* single.
C25_QuotesPreserved ==
  (op = "import" /\ header = headers /\ HasDataLine) =>
    \A k \in 1..Len(AcceptedRows) :
      LET fields == QuotedFields(rows[AcceptedRows[k]])
          e == decoded.expenses[k] IN
      /\ Len(fields) >= 6
      /\ e.id = Trim(fields[1])
      /\ e.category = (IF Trim(fields[4]) = <<>> THEN Uncategorized ELSE Trim(fields[4]))
      /\ e.description = WithoutOuterQuotes(Trim(fields[5]))
      /\ e.tags = TrimmedPieces(Trim(fields[6]))


(* ------------------------------------------------------ the application *)
\* the records and the problems that importExpenses yields for the file of
\* the last read
ImportedNow == importExpenses(arg.text)

\* C21: the ids of the expense collection of the application, and of the
\* collection in the storage, are pairwise distinct after any sequence of
\* additions, edits, deletions, imports and clearings, from an empty
\* collection as from a stored one with distinct ids, also when the imported
\* file has an id on several rows.
C21_UniqueIds ==
  /\ DistinctIds(appExpenses)
  /\ DistinctIds(getExpenses(localStorage))

\* a file with an id on two rows was imported into a collection with a
\* record that the application had added
C21_Witness ==
  /\ op = "importApplied"
  /\ ~DistinctIds(ImportedNow.expenses)
  /\ Len(appExpenses) = 2
  /\ \E i \in 1..2 : appExpenses[i].id = randomUUID(1)
  /\ \E i \in 1..2 : appExpenses[i].id = <<"1">> /\ appExpenses[i].amount = Fin(500)

\* C26: an import that the user declines, and an import of a file that
\* fails as a whole and that the user confirms, leave the expense collection
\* of the application as it was.
C26_AbandonedImport ==
  [][((op' = "importDeclined")
      \/ (op' = "importApplied" /\ importExpenses(arg'.text).expenses = <<>>
                                /\ importExpenses(arg'.text).errors # <<>>))
     => appExpenses' = appExpenses]_vars

\* C27: when a read completes, every record of the collection whose id is
\* not in the file is still in the collection, and every record of the
\* collection afterwards has an id of the collection before or of the file.
C27_NoLostUpdate ==
  [][(op' \in {"importApplied", "importDeclined"}) =>
       /\ \A i \in 1..Len(appExpenses) :
            appExpenses[i].id \notin IdsOf(importExpenses(arg'.text).expenses)
              => appExpenses[i] \in Range(appExpenses')
       /\ \A j \in 1..Len(appExpenses') :
            appExpenses'[j].id \in IdsOf(appExpenses) \cup IdsOf(importExpenses(arg'.text).expenses)]_vars

\* the steps of a start: nothing yet, a reload, an effect or the render
StartingUp == op \in {"none", "reload", "loadEffect", "saveEffect", "saveSettingsEffect", "render"}

\* C28: from the start of the application until the first operation of the
\* user the storage holds the collection it held before the start.
C28_StartupKeepsStorage == StartingUp => getExpenses(localStorage) = stored0

\* C29: clearing the expenses leaves the persisted settings as they were,
\* and a reload after it starts with the settings of before.
C29_ClearKeepsSettings ==
  /\ [][(op' = "clearData" /\ arg'.confirmed) =>
          getSettings(localStorage') = getSettings(localStorage)]_vars
  /\ [][(op = "clearData" /\ arg.confirmed /\ op' = "reload") =>
          appSettings' = JsonSettings(appSettings)]_vars

\* the hash in the persisted settings
StoredHash(storage) == getSettings(storage).passwordHash

\* C30: with a password hash in the settings the Settings view is locked
\* when it is mounted; it goes from locked to unlocked only by a submitted
\* password whose hash is the stored one; a wrong password leaves it locked
\* with an error; the hash, in the settings of the application and in the
\* persisted ones, is replaced or removed only by a change of password with
\* a current password whose hash is the stored one.
C30_SettingsLock ==
  /\ [][(view # "settings" /\ view' = "settings" /\ appSettings.passwordHash # NoHash)
          => isLocked']_vars
  /\ [][(view = "settings" /\ view' = "settings" /\ isLocked /\ ~isLocked')
          => (op' = "unlock" /\ hashPassword(arg'.password) = appSettings.passwordHash)]_vars
  /\ [][(op' = "unlock" /\ hashPassword(arg'.password) # appSettings.passwordHash)
          => (isLocked' /\ unlockError' # "")]_vars
  /\ [][(appSettings.passwordHash # NoHash /\ appSettings'.passwordHash # appSettings.passwordHash)
          => (op' = "changePassword" /\ hashPassword(arg'.password) = appSettings.passwordHash)]_vars
  /\ [][(StoredHash(localStorage) # NoHash /\ StoredHash(localStorage') # StoredHash(localStorage))
          => (op' = "changePassword" /\ hashPassword(arg'.password) = StoredHash(localStorage))]_vars

====
